---- MODULE Spec2Model ----
(***************************************************************************)
(* History-table generator: the change orchestrator (HistoryManager), the  *)
(* connection adapter it drives (BaseDatabase / PostgreSQLDatabase /       *)
(* MySQLDatabase) and the trigger-generator factory.                       *)
(*                                                                         *)
(* One HistoryManager owns one adapter.  A caller invokes preview_changes, *)
(* apply_changes and rollback_changes one at a time; apply_changes is      *)
(* split at the adapter's transaction boundaries (begin, one step per      *)
(* _create_history_table / _create_triggers call, commit, the exception    *)
(* handler of transaction()).  That is Spec.                               *)
(*                                                                         *)
(* SynthSpec drives the factory and the trigger generator directly         *)
(* (create_database, connect, the three generate_* calls); AdapterSpec     *)
(* drives one adapter directly (begin / commit / rollback_transaction,     *)
(* execute_query, execute_many, disconnect, connect).                      *)
(*                                                                         *)
(* IntrospectSpec drives get_table_constraints and get_schemas on one      *)
(* adapter; ThreadSpec lets two threads call one MySQL adapter, one use of *)
(* the connection or of the lock per step; RetrySpec and MemoSpec run the  *)
(* retry and memoize decorators of utils/decorators.py.                    *)
(***************************************************************************)
EXTENDS Integers, Sequences, FiniteSets, TLC

\* ------------------------------------------------------------------ bounds
MaxTables == 2      \* tables the schema can hold
MaxApplies == 1     \* apply_changes calls in one run
MaxStmts == 4       \* statements sent when the adapter is driven directly
MaxAttempts == 3    \* the max_attempts values given to retry: 0 .. MaxAttempts
MaxSize == 3        \* the maxsize values given to memoize: 0 .. MaxSize

Tables == 1..MaxTables
NoTable == 0
Schema == "public"

\* ------------------------------------------------------------ state
VARIABLES
    db_type,                \* database.config['db_type']
    backup_before_changes,  \* config['app']['backup_before_changes']
    catalog,                \* the schema's tables: "absent", "nocols" or "cols"
    connection,             \* BaseDatabase.connection: "none" or "open"
    _transaction_stack,     \* BaseDatabase._transaction_stack (begin markers)
    committed,              \* objects durable in the database
    pending,                \* objects of the connection's uncommitted transaction
    tx_status,              \* the driver's transaction: "idle", "active" or "failed"
    _changes_applied,       \* HistoryManager._changes_applied (the ledger)
    backup_files,           \* backup files written to disk so far
    wire,                   \* statements the current call sent to the driver
    pc,                     \* position of the running operation ("idle": none, "done": it ended)
    op,                     \* the operation running or last run
    selected,               \* apply_changes: selected_tables (line 54)
    answer,                 \* what ui.confirm_action answers in this call
    user_ok,                \* apply_changes: SELECT CURRENT_USER runs without error
    idx,                    \* loop index of apply_changes over selected
    exc,                    \* exception in flight / raised by the last call
    exc_stmt,               \* the statement whose failure exc reports
    result,                 \* "none", "running", "returned" or "raised"
    applies,                \* apply_changes calls so far
    ledger0,                \* snapshot at call entry: _changes_applied
    committed0,             \* snapshot at call entry: committed
    files0,                 \* snapshot at call entry: backup_files
    tx_opened,              \* the call's begin_transaction succeeded
    last_apply,             \* how the latest apply_changes call ended ("none": no call yet)
    adapter,                \* class of the adapter DatabaseFactory constructed ("none": none)
    app_config,             \* config['app']: the naming configuration
    ddl0,                   \* the first synthesis call made and what it returned
    ddl,                    \* the latest synthesis call made and what it returned
    config_database,        \* the adapter's config['database']
    threads,                \* threads calling one adapter: positions, the lock, the active database
    retry_run,              \* the latest call through retry, or of connect, as observed
    memo                    \* a memoize wrapper: its closure (ttl, maxsize) and its cache

cfgvars == <<db_type, backup_before_changes, catalog>>
synvars == <<adapter, app_config, ddl0, ddl>>
callvars == <<op, selected, answer, user_ok, ledger0, committed0, files0>>
utilvars == <<config_database, threads, retry_run, memo>>
corevars == <<db_type, backup_before_changes, catalog, connection, _transaction_stack,
              committed, pending, tx_status, _changes_applied, backup_files, wire, pc,
              op, selected, answer, user_ok, idx, exc, exc_stmt, result, applies,
              ledger0, committed0, files0, tx_opened, last_apply, adapter, app_config,
              ddl0, ddl>>
vars == <<db_type, backup_before_changes, catalog, connection, _transaction_stack,
          committed, pending, tx_status, _changes_applied, backup_files, wire, pc, op,
          selected, answer, user_ok, idx, exc, exc_stmt, result, applies, ledger0,
          committed0, files0, tx_opened, last_apply, adapter, app_config, ddl0, ddl,
          config_database, threads, retry_run, memo>>

\* ------------------------------------------------------------ helpers
RECURSIVE SeqsOver(_, _)
\* sequences without repetition over S of length at most n
SeqsOver(S, n) ==
    IF n = 0 THEN {<<>>}
    ELSE LET shorter == SeqsOver(S, n - 1)
         IN shorter \cup
            UNION {{Append(s, x) : x \in S \ {s[i] : i \in DOMAIN s}} :
                      s \in {q \in shorter : Len(q) = n - 1}}

Stmt(k, t, ok) == [stmt |-> k, tbl |-> t, ok |-> ok]

\* ------------------------------------------------------------ the adapter
DbTypes == {"postgresql", "mysql"}

HistoryDDL == "DDL_HISTORY_TABLE"
FunctionDDL == "DDL_TRIGGER_FUNCTION"
TriggerDDL == "DDL_CREATE_TRIGGER"
DDLKinds == {HistoryDDL, FunctionDDL, TriggerDDL}
TxKinds == {"BEGIN", "COMMIT", "ROLLBACK"}
CatalogReads == {"get_tables", "get_table_columns"}

\* query.strip().upper().startswith(('SELECT', 'SHOW', 'DESC', 'DESCRIBE'))
IsRead(stmt) ==
    stmt \in CatalogReads \cup {"SELECT_CURRENT_USER", "get_schemas", "get_table_constraints"}

\* the object a DDL statement creates
Creates(stmt, t) ==
    CASE stmt = HistoryDDL -> {<<"history_table", t>>}
      [] stmt = FunctionDDL -> {<<"trigger_function", t>>}
      [] stmt = TriggerDDL -> {<<"trigger", t>>}
      [] OTHER -> {}

\* The connection as a value: what execute_query reads and writes.
DB == [committed |-> committed, pending |-> pending, tx_status |-> tx_status,
       wire |-> wire, err |-> "none"]

\* connection.commit()
connection_commit(d) ==
    [d EXCEPT !.committed = d.committed \cup d.pending, !.pending = {},
              !.tx_status = "idle"]

\* connection.rollback()
connection_rollback(d) == [d EXCEPT !.pending = {}, !.tx_status = "idle"]

\* cursor.execute(query) raising: the driver's transaction is left failed
\* until it is rolled back.
cursor_execute_raises(d, stmt, t) ==
    [d EXCEPT !.wire = Append(d.wire, Stmt(stmt, t, FALSE)), !.tx_status = "failed"]

\* cursor.execute(query): the statement runs inside the driver's
\* transaction (autocommit is off, so the first statement opens one);
\* COMMIT and ROLLBACK sent as text end that transaction.
cursor_execute(d, stmt, t) ==
    LET sent == [d EXCEPT !.wire = Append(d.wire, Stmt(stmt, t, TRUE)),
                          !.tx_status = "active"]
    IN CASE stmt = "COMMIT" -> connection_commit(sent)
         [] stmt = "ROLLBACK" -> connection_rollback(sent)
         [] stmt \in DDLKinds ->
                [sent EXCEPT !.pending = sent.pending \cup Creates(stmt, t)]
         [] OTHER -> sent

\* Statements other than reads are committed as soon as they ran.
CommitsAfter(stmt) == ~IsRead(stmt)

\* execute_query raising the DatabaseError without connection.rollback()
execute_query_no_rollback(d, stmt, t, ok) ==
    IF connection # "open"
    THEN [d EXCEPT !.err = "DatabaseError"]
    ELSE IF ~ok
    THEN [cursor_execute_raises(d, stmt, t) EXCEPT !.err = "DatabaseError"]
    ELSE LET ran == cursor_execute(d, stmt, t)
         IN IF CommitsAfter(stmt) THEN connection_commit(ran) ELSE ran

\* PostgreSQLDatabase.execute_query / MySQLDatabase.execute_query.
\* ok: the driver ran the statement without error.
execute_query(d, stmt, t, ok) ==
    IF connection # "open"
    THEN [d EXCEPT !.err = "DatabaseError"]
    ELSE IF ~ok
    THEN [connection_rollback(cursor_execute_raises(d, stmt, t)) EXCEPT
              !.err = "DatabaseError"]
    ELSE LET ran == cursor_execute(d, stmt, t)
         IN IF CommitsAfter(stmt) THEN connection_commit(ran) ELSE ran

RECURSIVE RunBatch_committing(_, _, _, _)
\* the loop of execute_many with connection.commit() after every query
RunBatch_committing(d, queries, i, failAt) ==
    IF i > Len(queries) THEN connection_commit(d)
    ELSE IF i = failAt
    THEN [connection_rollback(cursor_execute_raises(d, queries[i][1], queries[i][2]))
              EXCEPT !.err = "DatabaseError"]
    ELSE RunBatch_committing(
             connection_commit(cursor_execute(d, queries[i][1], queries[i][2])),
             queries, i + 1, failAt)

RECURSIVE RunBatch(_, _, _, _)
\* execute_many, the loop from query i on: failAt is the position of the
\* query the driver rejects (0: none); the batch is committed as a whole,
\* or rolled back and the DatabaseError re-raised.
RunBatch(d, queries, i, failAt) ==
    IF i > Len(queries) THEN connection_commit(d)
    ELSE IF i = failAt
    THEN [connection_rollback(cursor_execute_raises(d, queries[i][1], queries[i][2]))
              EXCEPT !.err = "DatabaseError"]
    ELSE RunBatch(cursor_execute(d, queries[i][1], queries[i][2]), queries, i + 1, failAt)

\* PostgreSQLDatabase.execute_many / MySQLDatabase.execute_many.  There is
\* no is_connected check: on a None connection .cursor() raises
\* AttributeError and so does the handler's self.connection.rollback().
execute_many(d, queries, failAt) ==
    IF queries = <<>> THEN d
    ELSE IF connection # "open" THEN [d EXCEPT !.err = "AttributeError"]
    ELSE RunBatch(d, queries, 1, failAt)

\* `if self._transaction_stack:` always taken
stack_guard_always(stk) == TRUE

\* commit_transaction / rollback_transaction: `if self._transaction_stack:`
stack_guard(stk) == stk # <<>>

\* list.pop()
Pop(stk) == SubSeq(stk, 1, Len(stk) - 1)

\* BaseDatabase.get_current_user: the query's failure is swallowed and, the
\* rows being dictionaries, result[0][0] raises KeyError, swallowed too.
get_current_user(d, ok) ==
    [db |-> [execute_query(d, "SELECT_CURRENT_USER", NoTable, ok) EXCEPT !.err = "none"],
     user |-> "UNKNOWN"]

\* get_tables / get_table_columns: one catalog read, its error re-wrapped.
get_tables(d, ok) == execute_query(d, "get_tables", NoTable, ok)
get_table_columns(d, t, ok) == execute_query(d, "get_table_columns", t, ok)

SchemaTables == {t \in Tables : catalog[t] # "absent"}

SetDB(d) ==
    /\ committed' = d.committed
    /\ pending' = d.pending
    /\ tx_status' = d.tx_status
    /\ wire' = d.wire

NoStmt == <<"none", NoTable>>

\* The statement a DatabaseError reports: execute_query wraps the driver's
\* error of the statement it just ran ("Query execution failed: ..."), or
\* reports "Not connected to database" having sent nothing.
Raiser(d) ==
    IF d.err # "DatabaseError" THEN NoStmt
    ELSE IF d.wire # <<>> /\ ~d.wire[Len(d.wire)].ok
    THEN <<d.wire[Len(d.wire)].stmt, d.wire[Len(d.wire)].tbl>>
    ELSE <<"not_connected", NoTable>>

\* ------------------------------------------------------------ the registry
\* The dialect tags considered: those ConsoleUI offers (lower-cased), the
\* aliases the factory knows, the keys of the generator map, a tag in
\* capitals and the empty tag of a config without 'db_type'.
Tags == {"postgresql", "PostgreSQL", "postgres", "mysql", "mariadb",
         "sqlserver", "sql server", "oracle", ""}

\* str.lower() on these tags
Lower(tag) == IF tag = "PostgreSQL" THEN "postgresql" ELSE tag

\* create_database falling back to the PostgreSQL adapter for unknown tags
create_database_fallback(tag) ==
    IF Lower(tag) \in {"mysql", "mariadb"}
    THEN [adapter |-> "MySQLDatabase", err |-> "none"]
    ELSE [adapter |-> "PostgreSQLDatabase", err |-> "none"]

\* DatabaseFactory.create_database: the adapter class constructed, or the
\* ValueError raised.  The constructors only store the config.
create_database(tag) ==
    IF Lower(tag) \in {"postgresql", "postgres"}
    THEN [adapter |-> "PostgreSQLDatabase", err |-> "none"]
    ELSE IF Lower(tag) \in {"mysql", "mariadb"}
    THEN [adapter |-> "MySQLDatabase", err |-> "none"]
    ELSE [adapter |-> "none", err |-> "ValueError"]

\* TriggerGenerator._generators.get(db_type)
_generators(tag) ==
    IF tag = "postgresql" THEN "PostgreSQLTriggerGenerator" ELSE "None"

\* ------------------------------------------------------------ the synthesizer
\* _get_generator handing out the PostgreSQL generator for every dialect
get_generator_err_any == "none"

\* TriggerGenerator._get_generator: the generator class registered for the
\* adapter's db_type; a tag mapped to None, or not in the map, has none.
get_generator_err ==
    IF _generators(Lower(db_type)) = "None" THEN "ValueError" ELSE "none"

\* config.get(key, default)
ConfigGet(key, default) ==
    IF app_config[key] = "unset" THEN default ELSE app_config[key]

timestamp_column == ConfigGet("timestamp_column", "history_timestamp")
operation_column == ConfigGet("operation_column", "history_operation")
user_column == ConfigGet("user_column", "history_user")

\* What a synthesis call returns: the column definitions and the PRIMARY
\* KEY clause of a CREATE TABLE (by column name), and the statements.
NoDDL == [column_defs |-> <<>>, primary_key |-> <<>>, statements |-> <<>>]

\* generate_history_table_ddl consulting the adapter: the PRIMARY KEY clause
\* is left out while the adapter is not connected
PostgreSQL_generate_history_table_ddl_connected(columns) ==
    IF columns = <<>>
    THEN [err |-> "IndexError", out |-> NoDDL]
    ELSE [err |-> "none",
          out |-> [column_defs |-> columns \o <<timestamp_column, operation_column,
                                                 user_column>>,
                   primary_key |-> IF connection = "open"
                                   THEN <<columns[1], timestamp_column>> ELSE <<>>,
                   statements |-> <<HistoryDDL>>]]

\* PostgreSQLTriggerGenerator.generate_history_table_ddl; columns is the
\* list of the columns' names.  The PRIMARY KEY clause reads columns[0].
PostgreSQL_generate_history_table_ddl(columns) ==
    IF columns = <<>>
    THEN [err |-> "IndexError", out |-> NoDDL]
    ELSE [err |-> "none",
          out |-> [column_defs |-> columns \o <<timestamp_column, operation_column,
                                                 user_column>>,
                   primary_key |-> <<columns[1], timestamp_column>>,
                   statements |-> <<HistoryDDL>>]]

\* TriggerGenerator.generate_history_table_ddl
generate_history_table_ddl(columns) ==
    IF get_generator_err # "none"
    THEN [err |-> get_generator_err, out |-> NoDDL]
    ELSE PostgreSQL_generate_history_table_ddl(columns)

\* the column names get_table_columns returns for a table of the catalog
ColumnsOf(t) == IF catalog[t] = "nocols" THEN <<>> ELSE <<"id">>

\* generate_history_table_ddl: what it raises ("none": it returns the DDL).
generate_history_table_ddl_err(t) == generate_history_table_ddl(ColumnsOf(t)).err

\* generate_trigger_ddl returning the CREATE TRIGGER before its function
generate_trigger_ddl_swapped(t) == <<TriggerDDL, FunctionDDL>>

\* generate_trigger_ddl: [trigger_function, create_trigger]
generate_trigger_ddl(t) == <<FunctionDDL, TriggerDDL>>

\* ------------------------------------------------------------ the orchestrator
HistoryAction == "CREATE_HISTORY_TABLE"
TriggersAction == "CREATE_TRIGGERS"

\* HistoryManager._log_change (the timestamp is left out)
_log_change(led, t, action, okUser, d) ==
    LET u == get_current_user(d, okUser)
    IN [db |-> u.db,
        ledger |-> Append(led, [schema |-> Schema, table |-> t,
                                action |-> action, user |-> u.user])]

\* HistoryManager._create_history_table
_create_history_table(d, led, t, okCols, okDDL, okUser) ==
    LET d1 == get_table_columns(d, t, okCols)
        g == generate_history_table_ddl_err(t)
        d2 == execute_query(d1, HistoryDDL, t, okDDL)
    IN IF d1.err # "none" THEN [db |-> d1, ledger |-> led]
       ELSE IF g # "none" THEN [db |-> [d1 EXCEPT !.err = g], ledger |-> led]
       ELSE IF d2.err # "none" THEN [db |-> d2, ledger |-> led]
       ELSE _log_change(led, t, HistoryAction, okUser, d2)

\* _create_triggers with the _log_change call in a finally clause: the
\* entry is appended whether or not the statements raised
_create_triggers_finally(d, led, t, okFn, okTrg, okUser) ==
    LET queries == generate_trigger_ddl(t)
        d1 == execute_query(d, queries[1], t, okFn)
        d2 == IF d1.err # "none" THEN d1 ELSE execute_query(d1, queries[2], t, okTrg)
        logged == _log_change(led, t, TriggersAction, okUser, d2)
    IN [db |-> [logged.db EXCEPT !.err = d2.err], ledger |-> logged.ledger]

\* TriggerGenerator.generate_trigger_ddl
TriggerGenerator_generate_trigger_ddl(t) ==
    IF get_generator_err # "none"
    THEN [err |-> get_generator_err, out |-> NoDDL]
    ELSE [err |-> "none", out |-> [NoDDL EXCEPT !.statements = generate_trigger_ddl(t)]]

\* TriggerGenerator.generate_backup_ddl
generate_backup_ddl(t) ==
    IF get_generator_err # "none"
    THEN [err |-> get_generator_err, out |-> NoDDL]
    ELSE [err |-> "none", out |-> [NoDDL EXCEPT !.statements = <<"BACKUP_COPY">>]]

\* HistoryManager._create_triggers
_create_triggers(d, led, t, okFn, okTrg, okUser) ==
    LET queries == generate_trigger_ddl(t)
        d1 == execute_query(d, queries[1], t, okFn)
        d2 == execute_query(d1, queries[2], t, okTrg)
    IN IF get_generator_err # "none"
       THEN [db |-> [d EXCEPT !.err = get_generator_err], ledger |-> led]
       ELSE IF d1.err # "none" THEN [db |-> d1, ledger |-> led]
       ELSE IF d2.err # "none" THEN [db |-> d2, ledger |-> led]
       ELSE _log_change(led, t, TriggersAction, okUser, d2)

\* HistoryManager._create_backup: Progress is not a name of the module
\* (history_manager.py imports nothing from rich), so line 189 raises
\* NameError before any backup statement is generated or the file is opened.
_create_backup(files, tables) == [files |-> files, err |-> "NameError"]

\* _display_preview executing the DDL it synthesized
_display_preview_executing(d, tables, okCols) ==
    LET d1 == get_table_columns(d, tables[1], okCols)
        g == generate_history_table_ddl_err(tables[1])
    IN IF d1.err # "none" THEN d1
       ELSE IF g # "none" THEN [d1 EXCEPT !.err = g]
       ELSE [execute_query(d1, HistoryDDL, tables[1], TRUE) EXCEPT !.err = "NameError"]

\* HistoryManager._display_preview: the first table's columns are read and
\* its DDL synthesized; Panel is not a name of the module either, so showing
\* the first panel raises NameError.
_display_preview(d, tables, okCols) ==
    LET d1 == get_table_columns(d, tables[1], okCols)
        g == generate_history_table_ddl_err(tables[1])
    IN IF d1.err # "none" THEN d1
       ELSE IF g # "none" THEN [d1 EXCEPT !.err = g]
       ELSE [d1 EXCEPT !.err = "NameError"]

\* HistoryManager.preview_changes, lines 25-38: the error the except clause
\* of line 40 catches is left in err.
preview_body(d, sel, okTables, okCols) ==
    LET d1 == get_tables(d, okTables)
    IN IF d1.err # "none" THEN d1
       ELSE IF SchemaTables = {} THEN d1
       ELSE IF sel = <<>> THEN d1
       ELSE _display_preview(d1, sel, okCols)

\* apply_changes without the confirmation step
apply_precheck_unconfirmed(sel, ans) ==
    /\ SchemaTables # {}
    /\ sel # <<>>

\* HistoryManager.apply_changes, lines 50-65: TRUE when the call goes on to
\* the backup and the transaction, FALSE when it returns first.
apply_precheck(sel, ans) ==
    /\ SchemaTables # {}
    /\ sel # <<>>
    /\ ans

\* The schemas considered: tables 1..n present for some n, each with
\* columns, except that table n may be a table without columns.
Catalogs ==
    {c \in [Tables -> {"absent", "nocols", "cols"}] :
        \A t \in Tables :
            /\ (t > 1 /\ c[t] # "absent") => c[t - 1] # "absent"
            /\ c[t] = "nocols" => (t = MaxTables \/ c[t + 1] = "absent")}

\* config['app'] without naming keys
DefaultConfig ==
    [timestamp_column |-> "unset", operation_column |-> "unset", user_column |-> "unset"]

\* no synthesis call made yet
NoCall == [fn |-> "none", columns |-> <<>>, pkey |-> {}, conn |-> "none",
           err |-> "none", out |-> NoDDL]

\* the databases of the server the adapter is configured for
Databases == {"db1", "db2"}

\* the threads that may call one adapter
ThreadIds == {"t1", "t2"}

\* no thread is inside a call; the lock of BaseDatabase.__init__ is free
NoThreads ==
    [pc |-> [t \in ThreadIds |-> "idle"],
     call |-> [t \in ThreadIds |-> "none"],
     schema |-> [t \in ThreadIds |-> "none"],
     ran_in |-> [t \in ThreadIds |-> "none"],
     left |-> [t \in ThreadIds |-> 0],
     result |-> [t \in ThreadIds |-> "none"],
     lock |-> [owner |-> "none", count |-> 0],
     database |-> "db1"]

\* no call through retry observed yet
NoRun ==
    [fn |-> "none", max_attempts |-> 0, delay |-> 0, backoff |-> 0, attempt |-> 0,
     current_delay |-> 0, last_exception |-> 0, calls |-> 0, waits |-> <<>>,
     state |-> "none", exc |-> "none", raised_by |-> 0]

\* a memoize wrapper not yet created
NoMemo == [made |-> FALSE, ttl |-> "None", maxsize |-> 0, cache |-> <<>>]

\* ------------------------------------------------------------ Init
Init ==
    /\ db_type \in DbTypes
    /\ backup_before_changes \in BOOLEAN
    /\ catalog \in Catalogs
    /\ connection = "open"
    /\ _transaction_stack = <<>>
    /\ committed = {}
    /\ pending = {}
    /\ tx_status = "idle"
    /\ _changes_applied = <<>>
    /\ backup_files = 0
    /\ wire = <<>>
    /\ pc = "idle"
    /\ op = "none"
    /\ selected = <<>>
    /\ answer = FALSE
    /\ user_ok = TRUE
    /\ idx = 0
    /\ exc = "none"
    /\ exc_stmt = NoStmt
    /\ result = "none"
    /\ applies = 0
    /\ ledger0 = <<>>
    /\ committed0 = {}
    /\ files0 = 0
    /\ tx_opened = FALSE
    /\ last_apply = "none"
    /\ adapter = create_database(db_type).adapter
    /\ app_config = DefaultConfig
    /\ ddl0 = NoCall
    /\ ddl = NoCall
    /\ config_database = "db1"
    /\ threads = NoThreads
    /\ retry_run = NoRun
    /\ memo = NoMemo

\* What every operation does on entry: the observation variables restart
\* and the answer ui.confirm_action gives in this call is fixed.
Enter(name, ans) ==
    /\ pc = "idle"
    /\ op' = name
    /\ answer' = ans
    /\ ledger0' = _changes_applied
    /\ committed0' = committed
    /\ files0' = backup_files
    /\ tx_opened' = FALSE
    /\ idx' = 0

Entered == [DB EXCEPT !.wire = <<>>]

Selections == SeqsOver(SchemaTables, MaxTables)

\* ------------------------------------------------------------ actions
\* HistoryManager.preview_changes (whole call; it never raises).  The
\* selections are those of at most one table: _display_preview ends at the
\* first table's panel, so a longer selection acts as its first table alone.
PreviewChanges ==
    \E sel \in {q \in Selections : Len(q) <= 1}, okTables, okCols \in BOOLEAN :
        LET d == preview_body(Entered, sel, okTables, okCols)
        IN /\ Enter("preview", FALSE)
           /\ UNCHANGED <<selected, user_ok>>
           /\ SetDB(d)
           /\ exc' = d.err
           /\ exc_stmt' = Raiser(d)
           /\ result' = "returned"
           /\ pc' = "done"
           /\ UNCHANGED <<cfgvars, synvars, utilvars, connection, _transaction_stack,
                          _changes_applied, backup_files, applies, last_apply>>

\* HistoryManager.rollback_changes (whole call; it never raises).  With a
\* non-empty ledger line 97 raises NameError (Table is not a name of the
\* module), which line 119 catches: the confirmation is never asked, and
\* the confirmed branch of line 115 is `pass`.
RollbackChanges ==
    \E ans \in BOOLEAN :
        /\ Enter("rollback", ans)
        /\ UNCHANGED <<selected, user_ok>>
        /\ SetDB(Entered)
        /\ exc' = IF _changes_applied = <<>> THEN "none" ELSE "NameError"
        /\ exc_stmt' = NoStmt
        /\ result' = "returned"
        /\ pc' = "done"
        /\ UNCHANGED <<cfgvars, synvars, utilvars, connection, _transaction_stack,
                       _changes_applied, backup_files, applies, last_apply>>

\* HistoryManager.apply_changes, lines 47-69: up to the backup
ApplyStart ==
    \E sel \in Selections, ans, okTables \in BOOLEAN :
        LET d == get_tables(Entered, okTables)
            go == d.err = "none" /\ apply_precheck(sel, ans)
            b == IF go /\ backup_before_changes
                 THEN _create_backup(backup_files, sel)
                 ELSE [files |-> backup_files, err |-> "none"]
            err == IF d.err # "none" THEN d.err ELSE b.err
        IN /\ Enter("apply", ans)
           /\ selected' = IF d.err = "none" /\ SchemaTables # {} THEN sel ELSE <<>>
           /\ UNCHANGED user_ok
           /\ applies < MaxApplies
           /\ applies' = applies + 1
           /\ SetDB(d)
           /\ backup_files' = b.files
           /\ exc' = err
           /\ exc_stmt' = Raiser(d)
           /\ result' = IF err # "none" THEN "raised"
                        ELSE IF go THEN "running" ELSE "returned"
           /\ pc' = IF go /\ err = "none" THEN "a_begin" ELSE "done"
           /\ UNCHANGED <<cfgvars, synvars, utilvars, connection, _transaction_stack, _changes_applied,
                          last_apply>>

\* transaction(): begin_transaction.  Whether the current-user query of
\* _log_change works is fixed here for the whole transaction.
ApplyBegin ==
    \E ok, okUser \in BOOLEAN :
        LET d == execute_query(DB, "BEGIN", NoTable, ok)
        IN /\ pc = "a_begin"
           /\ SetDB(d)
           /\ IF d.err = "none"
              THEN /\ _transaction_stack' = Append(_transaction_stack, TRUE)
                   /\ tx_opened' = TRUE
                   /\ user_ok' = okUser
                   /\ idx' = 1
                   /\ pc' = "a_history"
                   /\ UNCHANGED <<exc, exc_stmt, result>>
              ELSE /\ exc' = d.err
                   /\ exc_stmt' = Raiser(d)
                   /\ result' = "raised"
                   /\ pc' = "done"
                   /\ UNCHANGED <<_transaction_stack, tx_opened, idx, user_ok>>
           /\ UNCHANGED <<cfgvars, synvars, utilvars, connection, _changes_applied, backup_files,
                          op, selected, answer, ledger0, committed0, files0, applies,
                          last_apply>>

\* the loop body, first half: _create_history_table(selected[idx])
ApplyCreateHistoryTable ==
    \E okCols, okDDL \in BOOLEAN :
        LET r == _create_history_table(DB, _changes_applied, selected[idx],
                                       okCols, okDDL, user_ok)
        IN /\ pc = "a_history"
           /\ SetDB(r.db)
           /\ _changes_applied' = r.ledger
           /\ exc' = r.db.err
           /\ exc_stmt' = Raiser(r.db)
           /\ pc' = IF r.db.err = "none" THEN "a_triggers" ELSE "a_handler"
           /\ UNCHANGED <<cfgvars, synvars, utilvars, connection, _transaction_stack, backup_files,
                          callvars, applies, idx, result, tx_opened, last_apply>>

\* the loop body, second half: _create_triggers(selected[idx])
ApplyCreateTriggers ==
    \E okFn, okTrg \in BOOLEAN :
        LET r == _create_triggers(DB, _changes_applied, selected[idx],
                                  okFn, okTrg, user_ok)
        IN /\ pc = "a_triggers"
           /\ SetDB(r.db)
           /\ _changes_applied' = r.ledger
           /\ exc' = r.db.err
           /\ exc_stmt' = Raiser(r.db)
           /\ IF r.db.err # "none"
              THEN pc' = "a_handler" /\ idx' = idx
              ELSE IF idx < Len(selected)
              THEN pc' = "a_history" /\ idx' = idx + 1
              ELSE pc' = "a_commit" /\ idx' = idx
           /\ UNCHANGED <<cfgvars, synvars, utilvars, connection, _transaction_stack, backup_files,
                          callvars, applies, result, tx_opened, last_apply>>

\* transaction(): commit_transaction after the body
ApplyCommit ==
    \E ok \in BOOLEAN :
        LET d == IF _transaction_stack # <<>>
                 THEN execute_query(DB, "COMMIT", NoTable, ok)
                 ELSE DB
        IN /\ pc = "a_commit"
           /\ SetDB(d)
           /\ IF d.err = "none"
              THEN /\ _transaction_stack' =
                        IF _transaction_stack # <<>>
                        THEN SubSeq(_transaction_stack, 1, Len(_transaction_stack) - 1)
                        ELSE _transaction_stack
                   /\ result' = "returned"
                   /\ pc' = "done"
                   /\ UNCHANGED <<exc, exc_stmt>>
              ELSE /\ exc' = d.err
                   /\ exc_stmt' = Raiser(d)
                   /\ pc' = "a_handler"
                   /\ UNCHANGED <<_transaction_stack, result>>
           /\ UNCHANGED <<cfgvars, synvars, utilvars, connection, _changes_applied, backup_files,
                          callvars, applies, idx, tx_opened, last_apply>>

\* transaction(): the except clause, rollback_transaction then raise; the
\* error of a failing ROLLBACK replaces the one being handled.
ApplyHandler ==
    \E ok \in BOOLEAN :
        LET d == IF _transaction_stack # <<>>
                 THEN execute_query(DB, "ROLLBACK", NoTable, ok)
                 ELSE DB
        IN /\ pc = "a_handler"
           /\ SetDB(d)
           /\ IF d.err = "none"
              THEN /\ _transaction_stack' =
                        IF _transaction_stack # <<>>
                        THEN SubSeq(_transaction_stack, 1, Len(_transaction_stack) - 1)
                        ELSE _transaction_stack
                   /\ UNCHANGED <<exc, exc_stmt>>
              ELSE /\ exc' = d.err
                   /\ exc_stmt' = Raiser(d)
                   /\ UNCHANGED _transaction_stack
           /\ result' = "raised"
           /\ pc' = "done"
           /\ UNCHANGED <<cfgvars, synvars, utilvars, connection, _changes_applied, backup_files,
                          callvars, applies, idx, tx_opened, last_apply>>

\* Control is back with the caller (the menu loop of main): the ended call's
\* answers and observations are dropped.
Return ==
    /\ pc = "done"
    /\ pc' = "idle"
    /\ op' = "none"
    /\ selected' = <<>>
    /\ answer' = FALSE
    /\ user_ok' = TRUE
    /\ idx' = 0
    /\ exc' = "none"
    /\ exc_stmt' = NoStmt
    /\ result' = "none"
    /\ wire' = <<>>
    /\ ledger0' = _changes_applied
    /\ committed0' = committed
    /\ files0' = backup_files
    /\ tx_opened' = FALSE
    /\ last_apply' = IF op = "apply" THEN result ELSE last_apply
    /\ UNCHANGED <<cfgvars, synvars, utilvars, connection, _transaction_stack, committed, pending,
                   tx_status, _changes_applied, backup_files, applies>>

\* PostgreSQLDatabase.disconnect / MySQLDatabase.disconnect
Disconnect ==
    /\ pc = "idle"
    /\ connection = "open"
    /\ connection' = "none"
    /\ pending' = {}
    /\ tx_status' = "idle"
    /\ UNCHANGED <<cfgvars, synvars, utilvars, _transaction_stack, committed, _changes_applied,
                   backup_files, wire, pc, callvars, idx, exc, exc_stmt, result,
                   applies, tx_opened, last_apply>>

\* PostgreSQLDatabase.connect / MySQLDatabase.connect on a closed adapter;
\* a failing connect raises and leaves connection None.
Connect ==
    \E ok \in BOOLEAN :
        /\ pc = "idle"
        /\ connection = "none"
        /\ connection' = IF ok THEN "open" ELSE "none"
        /\ UNCHANGED <<cfgvars, synvars, utilvars, _transaction_stack, committed, pending,
                       tx_status, _changes_applied, backup_files, wire, pc, callvars, idx,
                       exc, exc_stmt, result, applies, tx_opened, last_apply>>

Next ==
    \/ PreviewChanges
    \/ RollbackChanges
    \/ ApplyStart
    \/ ApplyBegin
    \/ ApplyCreateHistoryTable
    \/ ApplyCreateTriggers
    \/ ApplyCommit
    \/ ApplyHandler
    \/ Return
    \/ Disconnect
    \/ Connect

Spec == Init /\ [][Next]_vars

\* ------------------------------------------------------------ registry and synthesizer
\* The factory and the trigger generator driven directly: create_database
\* for a configured tag, connect / disconnect on the adapter it returned,
\* and the three synthesis calls of a TriggerGenerator built on that
\* adapter, for one table whose columns and primary key vary per call.

\* the manager's state, which these calls do not touch
mgrvars == <<backup_before_changes, catalog, _transaction_stack, committed, pending,
             tx_status,
             _changes_applied, backup_files, wire, op, selected, answer, user_ok,
             idx, exc_stmt, result, applies, ledger0, committed0, files0,
             tx_opened, last_apply, utilvars>>

NoManager ==
    /\ backup_before_changes = TRUE
    /\ catalog = [t \in Tables |-> "absent"]
    /\ _transaction_stack = <<>>
    /\ committed = {}
    /\ pending = {}
    /\ tx_status = "idle"
    /\ _changes_applied = <<>>
    /\ backup_files = 0
    /\ wire = <<>>
    /\ op = "none"
    /\ selected = <<>>
    /\ answer = FALSE
    /\ user_ok = TRUE
    /\ idx = 0
    /\ exc_stmt = NoStmt
    /\ result = "none"
    /\ applies = 0
    /\ ledger0 = <<>>
    /\ committed0 = {}
    /\ files0 = 0
    /\ tx_opened = FALSE
    /\ last_apply = "none"

\* naming configurations: the defaults, a renamed timestamp column, an
\* operation column named like a column of the table
Configs ==
    {[timestamp_column |-> ts, operation_column |-> oc, user_column |-> "unset"] :
        ts \in {"unset", "changed_at"}, oc \in {"unset", "id"}}

ColNames == {"id", "name", "history_timestamp"}

\* column lists of a table: distinct names, none to two columns
ColumnLists ==
    {<<>>} \cup {<<a>> : a \in ColNames}
           \cup {<<p[1], p[2]>> : p \in {q \in ColNames \X ColNames : q[1] # q[2]}}

Range(f) == {f[i] : i \in DOMAIN f}

SynthInit ==
    /\ NoManager
    /\ db_type \in Tags
    /\ app_config \in Configs
    /\ adapter = "none"
    /\ connection = "none"
    /\ pc = "r_start"
    /\ exc = "none"
    /\ ddl0 = NoCall
    /\ ddl = NoCall
    /\ config_database = "db1"
    /\ threads = NoThreads
    /\ retry_run = NoRun
    /\ memo = NoMemo

\* main, line 37: db_factory.create_database(db_config, ui)
CreateDatabase ==
    LET r == create_database(db_type)
    IN /\ pc = "r_start"
       /\ adapter' = r.adapter
       /\ exc' = r.err
       /\ pc' = IF r.err = "none" THEN "r_created" ELSE "r_failed"
       /\ UNCHANGED <<mgrvars, db_type, app_config, connection, ddl0, ddl>>

\* main, line 39: database.connect() on the adapter the factory returned
AdapterConnect ==
    \E ok \in BOOLEAN :
        /\ pc = "r_created"
        /\ adapter # "none"
        /\ connection = "none"
        /\ connection' = IF ok THEN "open" ELSE "none"
        /\ exc' = IF ok THEN "none" ELSE "DatabaseError"
        /\ UNCHANGED <<mgrvars, db_type, app_config, adapter, pc, ddl0, ddl>>

\* database.disconnect()
AdapterDisconnect ==
    /\ pc = "r_created"
    /\ connection = "open"
    /\ connection' = "none"
    /\ UNCHANGED <<mgrvars, db_type, app_config, adapter, pc, exc, ddl0, ddl>>

\* a synthesis call and its result are recorded; the first one is kept
Synthesized(fn, columns, pkey, r) ==
    LET call == [fn |-> fn, columns |-> columns, pkey |-> pkey, conn |-> connection,
                 err |-> r.err, out |-> r.out]
    IN /\ ddl' = call
       /\ ddl0' = IF ddl0 = NoCall THEN [call EXCEPT !.pkey = {}] ELSE ddl0
       /\ exc' = r.err

\* trigger_gen.generate_history_table_ddl(schema, table, columns, app_config)
\* for a table with these columns, pkey being its primary key
GenerateHistoryTableDDL ==
    \E columns \in ColumnLists :
        \E pkey \in SUBSET Range(columns) :
            /\ pc = "r_created"
            /\ Synthesized("generate_history_table_ddl", columns, pkey,
                           generate_history_table_ddl(columns))
            /\ UNCHANGED <<mgrvars, db_type, app_config, adapter, connection, pc>>

\* trigger_gen.generate_trigger_ddl(schema, table, app_config)
GenerateTriggerDDL ==
    /\ pc = "r_created"
    /\ Synthesized("generate_trigger_ddl", <<>>, {},
                   TriggerGenerator_generate_trigger_ddl(NoTable))
    /\ UNCHANGED <<mgrvars, db_type, app_config, adapter, connection, pc>>

\* trigger_gen.generate_backup_ddl(schema, table)
GenerateBackupDDL ==
    /\ pc = "r_created"
    /\ Synthesized("generate_backup_ddl", <<>>, {}, generate_backup_ddl(NoTable))
    /\ UNCHANGED <<mgrvars, db_type, app_config, adapter, connection, pc>>

SynthNext ==
    \/ CreateDatabase
    \/ AdapterConnect
    \/ AdapterDisconnect
    \/ GenerateHistoryTableDDL
    \/ GenerateTriggerDDL
    \/ GenerateBackupDDL

SynthSpec == SynthInit /\ [][SynthNext]_vars

\* ------------------------------------------------------------ the adapter driven directly
\* begin_transaction, commit_transaction, rollback_transaction,
\* execute_query and execute_many called in any order on one adapter, with
\* disconnect and connect in between; wire keeps every statement sent.

restvars == <<cfgvars, synvars, _changes_applied, backup_files, pc, selected, answer,
              user_ok, idx, applies, ledger0, committed0, files0, tx_opened,
              last_apply, threads, retry_run, memo>>

AdapterInit ==
    /\ Init
    /\ backup_before_changes
    /\ catalog = [t \in Tables |-> IF t = 1 THEN "cols" ELSE "absent"]

\* how a method call ends for its caller
MethodEnds(name, d) ==
    /\ SetDB(d)
    /\ op' = name
    /\ exc' = d.err
    /\ exc_stmt' = IF d.err = "DatabaseError" /\ d.wire = wire
                   THEN <<"not_connected", NoTable>>
                   ELSE Raiser(d)
    /\ result' = IF d.err = "none" THEN "returned" ELSE "raised"

\* BaseDatabase.begin_transaction
begin_transaction ==
    \E ok \in BOOLEAN :
        LET d == execute_query(DB, "BEGIN", NoTable, ok)
        IN /\ Len(wire) < MaxStmts
           /\ MethodEnds("begin_transaction", d)
           /\ _transaction_stack' = IF d.err = "none"
                                    THEN Append(_transaction_stack, TRUE)
                                    ELSE _transaction_stack
           /\ UNCHANGED <<connection, config_database, restvars>>

\* BaseDatabase.commit_transaction
commit_transaction ==
    \E ok \in BOOLEAN :
        LET go == stack_guard(_transaction_stack)
            d == IF go THEN execute_query(DB, "COMMIT", NoTable, ok) ELSE DB
        IN /\ Len(wire) < MaxStmts
           /\ MethodEnds("commit_transaction", d)
           /\ _transaction_stack' = IF go /\ d.err = "none"
                                    THEN Pop(_transaction_stack)
                                    ELSE _transaction_stack
           /\ UNCHANGED <<connection, config_database, restvars>>

\* BaseDatabase.rollback_transaction
rollback_transaction ==
    \E ok \in BOOLEAN :
        LET go == stack_guard(_transaction_stack)
            d == IF go THEN execute_query(DB, "ROLLBACK", NoTable, ok) ELSE DB
        IN /\ Len(wire) < MaxStmts
           /\ MethodEnds("rollback_transaction", d)
           /\ _transaction_stack' = IF go /\ d.err = "none"
                                    THEN Pop(_transaction_stack)
                                    ELSE _transaction_stack
           /\ UNCHANGED <<connection, config_database, restvars>>

\* execute_query called with a catalog read or a DDL statement
ExecuteQuery ==
    \E q \in {<<"get_tables", NoTable>>} \cup {<<HistoryDDL, t>> : t \in SchemaTables},
       ok \in BOOLEAN :
        /\ Len(wire) < MaxStmts
        /\ MethodEnds("execute_query", execute_query(DB, q[1], q[2], ok))
        /\ UNCHANGED <<connection, config_database, _transaction_stack, restvars>>

\* the batches execute_many is called with: none, or a table's trigger
\* function and trigger
Batches == {<<>>} \cup {<<(<<FunctionDDL, t>>), (<<TriggerDDL, t>>)>> : t \in SchemaTables}

ExecuteMany ==
    \E queries \in Batches :
        \E failAt \in 0..Len(queries) :
            /\ Len(wire) + Len(queries) <= MaxStmts
            /\ MethodEnds("execute_many", execute_many(DB, queries, failAt))
            /\ UNCHANGED <<connection, config_database, _transaction_stack, restvars>>

AdapterNext ==
    \/ begin_transaction
    \/ commit_transaction
    \/ rollback_transaction
    \/ ExecuteQuery
    \/ ExecuteMany
    \/ Disconnect
    \/ Connect

AdapterSpec == AdapterInit /\ [][AdapterNext]_vars

\* The introspection calls beyond get_tables / get_table_columns, driven
\* directly on one adapter with disconnect and connect in between.
\* get_table_constraints on an adapter of class cls.  PostgreSQLDatabase
\* swallows the query's failure and returns []; MySQLDatabase (lines
\* 408-590) defines no such method and BaseDatabase declares none, so the
\* attribute lookup fails.
get_table_constraints(cls, d, t, ok) ==
    IF cls = "PostgreSQLDatabase"
    THEN [execute_query(d, "get_table_constraints", t, ok) EXCEPT !.err = "none"]
    ELSE [d EXCEPT !.err = "AttributeError"]

GetTableConstraints ==
    \E t \in SchemaTables, ok \in BOOLEAN :
        /\ Len(wire) < MaxStmts
        /\ MethodEnds("get_table_constraints", get_table_constraints(adapter, DB, t, ok))
        /\ UNCHANGED <<connection, config_database, _transaction_stack, restvars>>

\* get_schemas(database) on a connected adapter of class cls.
\* PostgreSQLDatabase: connection.info.dbname is the database connect()
\* was given, config['database']; when it differs from the requested one
\* the adapter disconnects, overwrites config['database'] and connects
\* again (okConnect), then runs the schema query (okQuery).
\* MySQLDatabase: sets the connection's active database and runs SHOW TABLES.
get_schemas(cls, d, database, okConnect, okQuery) ==
    LET switch == cls = "PostgreSQLDatabase" /\ config_database # database
        closed == [d EXCEPT !.pending = {}, !.tx_status = "idle"]
    IN IF switch /\ ~okConnect
       THEN [db |-> [closed EXCEPT !.err = "DatabaseError"], connection |-> "none",
             config_database |-> database, failed |-> "switch"]
       ELSE LET q == execute_query(IF switch THEN closed ELSE d,
                                   "get_schemas", NoTable, okQuery)
            IN [db |-> q, connection |-> "open",
                config_database |-> IF switch THEN database ELSE config_database,
                failed |-> IF q.err = "none" THEN "none" ELSE "query"]

\* ConsoleUI.select_database_and_schema calls it after get_databases
\* returned, on a connected adapter.
GetSchemas ==
    \E database \in Databases, okConnect \in BOOLEAN, okQuery \in BOOLEAN :
        LET r == get_schemas(adapter, DB, database, okConnect, okQuery)
        IN /\ connection = "open"
           /\ Len(wire) < MaxStmts
           /\ SetDB(r.db)
           /\ op' = "get_schemas"
           /\ exc' = r.db.err
           /\ exc_stmt' = IF r.failed = "switch" THEN <<"connect", NoTable>>
                          ELSE Raiser(r.db)
           /\ result' = IF r.db.err = "none" THEN "returned" ELSE "raised"
           /\ connection' = r.connection
           /\ config_database' = r.config_database
           /\ UNCHANGED <<_transaction_stack, restvars>>

IntrospectNext ==
    \/ GetTableConstraints
    \/ GetSchemas
    \/ Disconnect
    \/ Connect

IntrospectSpec == AdapterInit /\ [][IntrospectNext]_vars

\* ------------------------------------------------------------ utils/decorators.py: retry
\* A function wrapped by retry(max_attempts, delay, backoff, exceptions),
\* called repeatedly; every call of the wrapped function returns, raises
\* an exception listed in `exceptions`, or raises another one.  retry_run
\* observes the call in progress: the calls made to the wrapped function,
\* the sleeps taken, and how the call ended.  database.connect() as main
\* calls it is observed the same way.

\* settings: AppConfig.max_retries, AppConfig.retry_delay
max_retries == 3
retry_delay == 2

Delays == {1, 2}
Backoffs == {1, 2, 3}

RetryInit == AdapterInit /\ db_type = "postgresql"

\* wrapper entered: last_exception = None, current_delay = delay
RetryCall ==
    \E m \in 0..MaxAttempts, dl \in Delays, b \in Backoffs :
        /\ retry_run.state # "running"
        /\ retry_run' = [NoRun EXCEPT !.fn = "wrapped", !.max_attempts = m,
                                      !.delay = dl, !.backoff = b,
                                      !.current_delay = dl, !.state = "running"]
        /\ UNCHANGED <<corevars, config_database, threads, memo>>

\* one iteration of `for attempt in range(max_attempts)`
RetryAttempt ==
    \E outcome \in {"returns", "listed", "unlisted"} :
        LET r == [retry_run EXCEPT !.calls = @ + 1]
        IN /\ retry_run.state = "running"
           /\ retry_run.attempt < retry_run.max_attempts
           /\ retry_run' =
                 CASE outcome = "returns" -> [r EXCEPT !.state = "returned"]
                   [] outcome = "unlisted" ->
                        [r EXCEPT !.state = "raised", !.exc = "unlisted",
                                  !.raised_by = r.calls]
                   [] outcome = "listed" /\ r.attempt = r.max_attempts - 1 ->
                        [r EXCEPT !.last_exception = r.calls, !.state = "raised",
                                  !.exc = "listed", !.raised_by = r.calls]
                   [] OTHER ->
                        [r EXCEPT !.last_exception = r.calls,
                                  !.waits = Append(@, r.current_delay),
                                  !.current_delay = @ * r.backoff,
                                  !.attempt = @ + 1]
           /\ UNCHANGED <<corevars, config_database, threads, memo>>

\* the loop ended without returning or raising: `raise last_exception`.
\* The last iteration always returns or raises, so this is reached only
\* when range(max_attempts) is empty, last_exception is still None and
\* `raise None` is a TypeError.
RetryExhausted ==
    /\ retry_run.state = "running"
    /\ retry_run.attempt >= retry_run.max_attempts
    /\ retry_run' = [retry_run EXCEPT
                        !.state = "raised",
                        !.exc = IF retry_run.last_exception = 0
                                THEN "TypeError" ELSE "listed",
                        !.raised_by = retry_run.last_exception]
    /\ UNCHANGED <<corevars, config_database, threads, memo>>

\* main, line 39: database.connect().  connect carries no decorator: it
\* asks the driver for a connection once and raises DatabaseError when
\* that fails; main then exits.
MainConnect ==
    \E ok \in BOOLEAN :
        /\ retry_run.state # "running"
        /\ retry_run' = [NoRun EXCEPT !.fn = "connect", !.max_attempts = max_retries,
                                      !.delay = retry_delay, !.calls = 1,
                                      !.state = IF ok THEN "returned" ELSE "raised",
                                      !.exc = IF ok THEN "none" ELSE "DatabaseError",
                                      !.raised_by = IF ok THEN 0 ELSE 1]
        /\ UNCHANGED <<corevars, config_database, threads, memo>>

RetryNext ==
    \/ RetryCall
    \/ RetryAttempt
    \/ RetryExhausted
    \/ MainConnect

RetrySpec == RetryInit /\ [][RetryNext]_vars

\* ------------------------------------------------------------ utils/decorators.py: memoize
\* One function wrapped by memoize(ttl, maxsize) and called with
\* arguments that make the keys of MemoKeys.  time.time() grows from call
\* to call, so the cache is kept as the sequence of its keys ordered by
\* timestamp, oldest first; whether an entry's age has reached ttl is the
\* caller's choice of moment.
MemoKeys == {"a", "b", "c", "d"}

MemoInit == AdapterInit /\ db_type = "postgresql"

\* `if maxsize is not None and len(cache) >= maxsize`: the maxsize // 2
\* oldest entries are deleted
memoize_evict(cache, maxsize) ==
    IF Len(cache) >= maxsize
    THEN SubSeq(cache, (maxsize \div 2) + 1, Len(cache))
    ELSE cache

\* cache[key] = (result, now)
memoize_store(cache, key) ==
    Append(SelectSeq(cache, LAMBDA k : k # key), key)

\* wrapper(*args): a hit returns the cached value; a miss or an expired
\* entry calls the function, evicts, and stores.
memoize_wrapper(m, key, expired) ==
    IF (\E i \in DOMAIN m.cache : m.cache[i] = key) /\ (m.ttl = "None" \/ ~expired)
    THEN m
    ELSE [m EXCEPT !.cache = memoize_store(memoize_evict(m.cache, m.maxsize), key)]

\* the decorator applied: cache = {}
Memoize ==
    \E ttl \in {"None", "set"}, maxsize \in 0..MaxSize :
        /\ ~memo.made
        /\ memo' = [made |-> TRUE, ttl |-> ttl, maxsize |-> maxsize, cache |-> <<>>]
        /\ UNCHANGED <<corevars, config_database, threads, retry_run>>

MemoCall ==
    \E key \in MemoKeys, expired \in BOOLEAN :
        /\ memo.made
        /\ memo' = memoize_wrapper(memo, key, expired)
        /\ UNCHANGED <<corevars, config_database, threads, retry_run>>

\* wrapper.clear_cache()
ClearCache ==
    /\ memo.made
    /\ memo' = [memo EXCEPT !.cache = <<>>]
    /\ UNCHANGED <<corevars, config_database, threads, retry_run>>

MemoNext ==
    \/ Memoize
    \/ MemoCall
    \/ ClearCache

MemoSpec == MemoInit /\ [][MemoNext]_vars

\* ------------------------------------------------------------ threads on one adapter
\* Two threads calling one connected MySQLDatabase: get_tables(schema),
\* execute_query with a DDL statement, execute_many with a batch of two.
\* Each step is one use of the connection or of self.lock, so that the
\* threads interleave where the interpreter lets them.
\*   set_database  self.connection.database = schema  (get_tables, line 550)
\*   acquire       `with self.lock:` entered
\*   execute       cursor.execute(query)
\*   fetch         cursor.fetchall(), return            (lock released)
\*   commit        self.connection.commit(), return     (lock released)
\*   rollback      self.connection.rollback(), raise
ThreadInit == AdapterInit /\ db_type = "mysql"

\* a call enters: position, arguments, what is yet to run
Entering(t, name, schema, at, n) ==
    [threads EXCEPT !.pc[t] = at, !.call[t] = name, !.schema[t] = schema,
                    !.ran_in[t] = "none", !.left[t] = n, !.result[t] = "running"]

\* RLock.acquire by its owner or when free; RLock.release
Acquired(t) == [owner |-> t, count |-> threads.lock.count + 1]
Released ==
    IF threads.lock.count = 1 THEN [owner |-> "none", count |-> 0]
    ELSE [threads.lock EXCEPT !.count = @ - 1]

\* MySQLDatabase.get_tables(schema) called
ThreadGetTables ==
    \E t \in ThreadIds, schema \in Databases :
        /\ threads.pc[t] = "idle"
        /\ threads' = Entering(t, "get_tables", schema, "set_database", 1)
        /\ UNCHANGED <<corevars, config_database, retry_run, memo>>

\* MySQLDatabase.execute_query(ddl) called; the adapter is connected
ThreadExecuteQuery ==
    \E t \in ThreadIds :
        /\ threads.pc[t] = "idle"
        /\ threads' = Entering(t, "execute_query", "none", "acquire", 1)
        /\ UNCHANGED <<corevars, config_database, retry_run, memo>>

\* MySQLDatabase.execute_many([q1, q2]) called
ThreadExecuteMany ==
    \E t \in ThreadIds :
        /\ threads.pc[t] = "idle"
        /\ threads' = Entering(t, "execute_many", "none", "acquire", 2)
        /\ UNCHANGED <<corevars, config_database, retry_run, memo>>

\* get_tables, line 550: the connection's active database is set, with
\* no lock held; execute_query is called next
ThreadSetDatabase ==
    \E t \in ThreadIds :
        /\ threads.pc[t] = "set_database"
        /\ threads' = [threads EXCEPT !.database = threads.schema[t],
                                      !.pc[t] = "acquire"]
        /\ UNCHANGED <<corevars, config_database, retry_run, memo>>

\* `with self.lock:` and the cursor's creation
ThreadAcquire ==
    \E t \in ThreadIds :
        /\ threads.pc[t] = "acquire"
        /\ threads.lock.owner \in {"none", t}
        /\ threads' = [threads EXCEPT !.lock = Acquired(t), !.pc[t] = "execute"]
        /\ UNCHANGED <<corevars, config_database, retry_run, memo>>

\* cursor.execute(query).  A failure leaves the with block of
\* execute_query, releasing the lock, before the except clause runs; in
\* execute_many the handler is inside the with block.
ThreadExecute ==
    \E t \in ThreadIds, ok \in BOOLEAN :
        /\ threads.pc[t] = "execute"
        /\ threads' =
              IF ok
              THEN [threads EXCEPT
                       !.ran_in[t] = threads.database,
                       !.left[t] = @ - 1,
                       !.pc[t] = IF threads.left[t] > 1 THEN "execute"
                                 ELSE IF threads.call[t] = "get_tables" THEN "fetch"
                                 ELSE "commit"]
              ELSE [threads EXCEPT
                       !.lock = IF threads.call[t] = "execute_many"
                                THEN threads.lock ELSE Released,
                       !.pc[t] = "rollback"]
        /\ UNCHANGED <<corevars, config_database, retry_run, memo>>

\* cursor.fetchall() and return
ThreadFetch ==
    \E t \in ThreadIds :
        /\ threads.pc[t] = "fetch"
        /\ threads' = [threads EXCEPT !.lock = Released, !.pc[t] = "idle",
                                      !.result[t] = "returned"]
        /\ UNCHANGED <<corevars, config_database, retry_run, memo>>

\* self.connection.commit() and return
ThreadCommit ==
    \E t \in ThreadIds :
        /\ threads.pc[t] = "commit"
        /\ threads' = [threads EXCEPT !.lock = Released, !.pc[t] = "idle",
                                      !.result[t] = "returned"]
        /\ UNCHANGED <<corevars, config_database, retry_run, memo>>

\* the except clause: self.connection.rollback(), then the raise
ThreadRollback ==
    \E t \in ThreadIds :
        /\ threads.pc[t] = "rollback"
        /\ threads' = [threads EXCEPT
                          !.lock = IF threads.lock.owner = t THEN Released
                                   ELSE threads.lock,
                          !.pc[t] = "idle",
                          !.result[t] = "raised"]
        /\ UNCHANGED <<corevars, config_database, retry_run, memo>>

ThreadNext ==
    \/ ThreadGetTables
    \/ ThreadExecuteQuery
    \/ ThreadExecuteMany
    \/ ThreadSetDatabase
    \/ ThreadAcquire
    \/ ThreadExecute
    \/ ThreadFetch
    \/ ThreadCommit
    \/ ThreadRollback

ThreadSpec == ThreadInit /\ [][ThreadNext]_vars

\* ------------------------------------------------------------ properties
IsPrefix(a, b) == Len(a) <= Len(b) /\ SubSeq(b, 1, Len(a)) = a

IsDDL(r) == r.stmt \in DDLKinds

\* the DDL statements of a wire, in the order sent, as <<statement, table>>
DDLOf(w) ==
    LET x == SelectSeq(w, IsDDL)
    IN [i \in 1..Len(x) |-> <<x[i].stmt, x[i].tbl>>]

Count(w, k) == Cardinality({i \in DOMAIN w : w[i].stmt = k})

\* the entries the running (or just ended) call appended to the ledger
Appended ==
    [i \in 1..(Len(_changes_applied) - Len(ledger0)) |->
        _changes_applied[Len(ledger0) + i]]

DDLOrder == <<HistoryDDL, FunctionDDL, TriggerDDL>>

\* history table, trigger function, CREATE TRIGGER of sel[1], then of sel[2], ...
ExpectedDDL(sel) ==
    [i \in 1..(3 * Len(sel)) |->
        <<DDLOrder[((i - 1) % 3) + 1], sel[((i - 1) \div 3) + 1]>>]

\* CREATE_HISTORY_TABLE, CREATE_TRIGGERS of sel[1], then of sel[2], ...
ExpectedLedger(sel) ==
    [i \in 1..(2 * Len(sel)) |->
        [schema |-> Schema, table |-> sel[((i - 1) \div 2) + 1],
         action |-> IF i % 2 = 1 THEN HistoryAction ELSE TriggersAction,
         user |-> "UNKNOWN"]]

ObjectsOf(t) == {<<"history_table", t>>, <<"trigger_function", t>>, <<"trigger", t>>}

ApplyEnded == pc = "done" /\ op = "apply"
ApplyFailed == ApplyEnded /\ result = "raised"
ApplySucceeded == ApplyEnded /\ result = "returned" /\ tx_opened
FailedDDL == \E i \in DOMAIN wire : IsDDL(wire[i]) /\ ~wire[i].ok
GetTablesReturned == wire # <<>> /\ wire[1] = Stmt("get_tables", NoTable, TRUE)

\* C1: batch atomicity of apply_changes: when a DDL statement of some
\* selected table failed, nothing the call created is committed once the
\* call has ended.
C1_BatchAtomicity ==
    (ApplyFailed /\ FailedDDL) => committed = committed0

\* C2: when apply_changes fails, the ledger after the call equals the
\* ledger before it.
C2_LedgerUnchangedOnFailure ==
    ApplyFailed => _changes_applied = ledger0

\* C3: after a successful apply_changes, a confirmed rollback_changes
\* leaves the ledger empty and none of the objects of the ledger's tables
\* in the database.
C3_RollbackSymmetry ==
    (pc = "done" /\ op = "rollback" /\ answer /\ last_apply = "returned"
        /\ ledger0 # <<>>)
    => /\ _changes_applied = <<>>
       /\ \A i \in DOMAIN ledger0 : ObjectsOf(ledger0[i].table) \cap committed = {}

\* the first inverse statement rollback has to send for ledger entry e
InverseOf(e) == IF e.action = TriggersAction THEN "DROP_TRIGGER" ELSE "DROP_TABLE"

\* C4: rollback_changes sends the inverse DDL of the ledger entries, last
\* entry first, and keeps in the ledger exactly the entries not reversed:
\* a prefix of the ledger it found, empty when no inverse statement failed.
C4_RollbackReverseOrder ==
    (pc = "done" /\ op = "rollback" /\ answer /\ ledger0 # <<>>)
    => /\ wire # <<>>
       /\ wire[1].stmt = InverseOf(ledger0[Len(ledger0)])
       /\ wire[1].tbl = ledger0[Len(ledger0)].table
       /\ IsPrefix(_changes_applied, ledger0)
       /\ (\A i \in DOMAIN wire : wire[i].ok) => _changes_applied = <<>>
       /\ (~wire[1].ok) => _changes_applied = ledger0

\* C5: in one apply_changes call the DDL statements are sent in the order
\* history table, trigger function, CREATE TRIGGER per table, tables in
\* selection order, and the entries the call appends to the ledger follow
\* the same order; a call that succeeds has sent and logged all of them.
C5_ApplyOrder ==
    op = "apply" =>
        /\ IsPrefix(DDLOf(wire), ExpectedDDL(selected))
        /\ IsPrefix(Appended, ExpectedLedger(selected))
        /\ ApplySucceeded =>
              /\ DDLOf(wire) = ExpectedDDL(selected)
              /\ Appended = ExpectedLedger(selected)

C5_Witness ==
    /\ ApplySucceeded
    /\ Len(selected) = 2
    /\ selected[1] > selected[2]
    /\ Len(Appended) = 4

UserQueries == {p \in DOMAIN wire : wire[p].stmt = "SELECT_CURRENT_USER"}

\* C6: every entry a call appends to the ledger was appended right after
\* the DDL it names had returned without raising: the history-table
\* statement for CREATE_HISTORY_TABLE, the trigger function and the CREATE
\* TRIGGER statements for CREATE_TRIGGERS; a statement that raised is
\* followed by no entry.
C6_LedgerOnlyAfterSuccess ==
    /\ Cardinality(UserQueries) = Len(Appended)
    /\ \A p \in UserQueries :
          LET e == Appended[Cardinality({q \in UserQueries : q <= p})]
          IN IF e.action = HistoryAction
             THEN p > 1 /\ wire[p - 1] = Stmt(HistoryDDL, e.table, TRUE)
             ELSE /\ p > 2
                  /\ wire[p - 1] = Stmt(TriggerDDL, e.table, TRUE)
                  /\ wire[p - 2] = Stmt(FunctionDDL, e.table, TRUE)
    /\ \A i \in DOMAIN wire :
          (IsDDL(wire[i]) /\ ~wire[i].ok /\ i < Len(wire))
          => wire[i + 1].stmt # "SELECT_CURRENT_USER"

C6_Witness ==
    /\ ApplyFailed
    /\ FailedDDL
    /\ Len(Appended) = 3
    /\ Appended[3].action = HistoryAction

\* C7: an apply_changes call that opened its transaction sent one BEGIN,
\* commits nothing before its single COMMIT, and ends with exactly one of
\* COMMIT (no statement failed) or ROLLBACK (a statement failed), the
\* transaction closed.
C7_OneTransaction ==
    (op = "apply" /\ tx_opened) =>
        /\ Count(wire, "BEGIN") = 1
        /\ Count(wire, "COMMIT") = 0 => committed = committed0
        /\ pc = "done" =>
              /\ Count(wire, "COMMIT") + Count(wire, "ROLLBACK") = 1
              /\ wire[Len(wire)].stmt \in {"COMMIT", "ROLLBACK"}
              /\ wire[Len(wire)].ok
              /\ (result = "returned") <=> (Count(wire, "COMMIT") = 1)

\* C8: preview_changes sends only catalog reads (get_tables,
\* get_table_columns) and changes neither the ledger, the database's
\* objects nor the backup files, however the call ends.
C8_PreviewReadOnly ==
    op = "preview" =>
        /\ \A i \in DOMAIN wire : wire[i].stmt \in CatalogReads
        /\ _changes_applied = ledger0
        /\ committed = committed0
        /\ backup_files = files0
        /\ pc = "done"

C8_Witness ==
    /\ pc = "done"
    /\ op = "preview"
    /\ Len(wire) = 2
    /\ wire[2] = Stmt("get_table_columns", 1, TRUE)
    /\ exc = "NameError"

\* C9: apply_changes is cancelled only before its transaction: with no
\* table in the schema, an empty selection or a declined confirmation the
\* call returns having sent nothing but get_tables, with no backup file
\* written and the ledger and the database unchanged; once the transaction
\* is open the call ends only through COMMIT or ROLLBACK.
C9_CancelBeforeTransaction ==
    /\ (op = "apply" /\ GetTablesReturned
            /\ (SchemaTables = {} \/ selected = <<>> \/ ~answer))
       => /\ pc = "done"
          /\ result = "returned"
          /\ ~tx_opened
          /\ Len(wire) = 1
          /\ backup_files = files0
          /\ _changes_applied = ledger0
          /\ committed = committed0
    /\ (ApplyEnded /\ tx_opened)
       => wire[Len(wire)].stmt \in {"COMMIT", "ROLLBACK"}

C9_Witness ==
    /\ ApplyEnded
    /\ backup_before_changes
    /\ selected # <<>>
    /\ ~answer
    /\ result = "returned"

\* C10: with backup_before_changes configured, a confirmed apply_changes
\* writes one backup file for the selected tables, and BEGIN and the DDL
\* statements come only after that file is written.
C10_BackupBeforeMutation ==
    (op = "apply" /\ backup_before_changes) =>
        /\ (\E i \in DOMAIN wire : wire[i].stmt \in DDLKinds \cup TxKinds)
           => backup_files = files0 + 1
        /\ (pc = "done" /\ GetTablesReturned /\ apply_precheck(selected, answer))
           => backup_files = files0 + 1

\* positions of the wire where a statement of a selected table raised
TableFailures ==
    {p \in DOMAIN wire : wire[p].tbl # NoTable /\ ~wire[p].ok}

\* C11: when an adapter call for a table raised inside apply_changes, no
\* statement of any table is sent afterwards, and the call ends raising the
\* DatabaseError of that very statement.
C11_AbortAndSurface ==
    (op = "apply" /\ TableFailures # {}) =>
        \A p \in TableFailures :
            /\ \A q \in DOMAIN wire : q > p => wire[q].tbl = NoTable
            /\ ApplyEnded =>
                  /\ result = "raised"
                  /\ exc = "DatabaseError"
                  /\ exc_stmt = <<wire[p].stmt, wire[p].tbl>>

\* the part of C11 that holds: the batch is aborted and some DatabaseError
\* is raised
C11_Aborts ==
    (op = "apply" /\ TableFailures # {}) =>
        \A p \in TableFailures :
            /\ \A q \in DOMAIN wire : q > p => wire[q].tbl = NoTable
            /\ ApplyEnded => (result = "raised" /\ exc = "DatabaseError")

\* C12: create_database with a tag that is not registered raises the
\* unsupported-type ValueError, constructs no adapter, and nothing is ever
\* connected or sent for that configuration.
C12_DialectIsolation ==
    (pc # "r_start" /\ Lower(db_type) \notin {"postgresql", "postgres", "mysql", "mariadb"})
    => /\ pc = "r_failed"
       /\ exc = "ValueError"
       /\ adapter = "none"
       /\ connection = "none"
       /\ wire = <<>>

C12_Witness ==
    /\ pc = "r_failed"
    /\ db_type = "sql server"
    /\ exc = "ValueError"

\* C13: adapter creation succeeds for a tag exactly when the generator
\* resolution for an adapter configured with that tag succeeds.
C13_MatchedPair ==
    pc \in {"r_created", "r_failed"} =>
        ((create_database(db_type).err = "none") <=> (get_generator_err = "none"))

NotSynthesized == [err |-> "ValueError", out |-> NoDDL]

\* C14: for an adapter whose dialect has no trigger generator, each of the
\* three synthesis calls raises ValueError and returns no DDL, and
\* apply_changes sends no DDL statement and creates nothing: once its
\* transaction is open it ends raising.
C14_NoGeneratorFailFast ==
    _generators(Lower(db_type)) = "None" =>
        /\ \A t \in Tables :
              /\ generate_history_table_ddl(ColumnsOf(t)) = NotSynthesized
              /\ TriggerGenerator_generate_trigger_ddl(t) = NotSynthesized
              /\ generate_backup_ddl(t) = NotSynthesized
        /\ \A i \in DOMAIN wire : wire[i].stmt \notin DDLKinds
        /\ committed = {}
        /\ _changes_applied = <<>>
        /\ (ApplyEnded /\ tx_opened) => result = "raised"

C14_Witness ==
    /\ db_type = "mysql"
    /\ ApplyEnded
    /\ tx_opened
    /\ exc = "ValueError"
    /\ \E i \in DOMAIN wire : wire[i] = Stmt("get_table_columns", selected[1], TRUE)

HistoryCallReturned == ddl.fn = "generate_history_table_ddl" /\ ddl.err = "none"

NotOriginal(n) == n \notin Range(ddl.columns)

NoDuplicates(q) == \A i, j \in DOMAIN q : q[i] = q[j] => i = j

\* C15: the column definitions generate_history_table_ddl returns are the
\* original columns in the given order, followed by those of the audit
\* columns (timestamp, operation, user) whose configured name is not the
\* name of an original column; no name occurs twice.
C15_SchemaCompleteness ==
    HistoryCallReturned =>
        /\ ddl.out.column_defs =
              ddl.columns \o SelectSeq(<<timestamp_column, operation_column, user_column>>,
                                       NotOriginal)
        /\ NoDuplicates(ddl.out.column_defs)

\* C16: the PRIMARY KEY clause generate_history_table_ddl returns lists the
\* source table's primary-key columns and the timestamp column, and
\* nothing else.
C16_PrimaryKeyPolicy ==
    HistoryCallReturned =>
        Range(ddl.out.primary_key) = ddl.pkey \cup {timestamp_column}

C18_EmptyColumnsRejected ==
    (ddl.fn = "generate_history_table_ddl" /\ ddl.columns = <<>>
        /\ _generators(Lower(db_type)) # "None")
    => (ddl.err = "ValidationError" /\ ddl.out = NoDDL)

\* the part of C18 that holds: apply_changes sends no DDL statement for a
\* table without columns
C18_NoDDLForEmptyTable ==
    \A i \in DOMAIN wire : IsDDL(wire[i]) => catalog[wire[i].tbl] # "nocols"

CountOk(k) == Cardinality({i \in DOMAIN wire : wire[i].stmt = k /\ wire[i].ok})

\* C19: the depth of _transaction_stack always equals the BEGIN statements
\* that ran minus the COMMIT and ROLLBACK statements that ran, and a
\* commit_transaction or rollback_transaction call on an empty stack sends
\* no statement and leaves the stack empty.
C19_TransactionStack ==
    /\ [](Len(_transaction_stack) =
             CountOk("BEGIN") - (CountOk("COMMIT") + CountOk("ROLLBACK")))
    /\ [][(_transaction_stack = <<>>
             /\ op' \in {"commit_transaction", "rollback_transaction"})
           => (wire' = wire /\ _transaction_stack' = <<>>)]_vars

C19_Witness ==
    /\ op = "rollback_transaction"
    /\ _transaction_stack = <<>>
    /\ Len(wire) = 2
    /\ CountOk("BEGIN") = 1
    /\ CountOk("COMMIT") = 1

\* C20: whenever execute_query or execute_many (directly or through
\* begin/commit/rollback_transaction) raised the DatabaseError of a
\* statement the driver rejected, connection.rollback() has run since the
\* rejection: the driver's transaction is not left failed and holds no
\* uncommitted object.
C20_RollbackBeforeError ==
    (exc = "DatabaseError" /\ exc_stmt[1] \notin {"none", "not_connected"})
    => (tx_status # "failed" /\ pending = {})

C20_Witness ==
    /\ op = "execute_many"
    /\ exc = "DatabaseError"
    /\ exc_stmt[1] = TriggerDDL
    /\ Len(wire) = 2
    /\ wire[1].ok
    /\ connection = "open"

\* the statements of a batch as the wire shows them when the first n were
\* sent and the driver rejected the one at position failAt (0: none)
SentOf(queries, n, failAt) ==
    [i \in 1..n |-> Stmt(queries[i][1], queries[i][2], i # failAt)]

\* what the last step appended to wire
NewOnWire == SubSeq(wire', Len(wire) + 1, Len(wire'))

\* the objects the statements of a batch create
BatchObjects(queries) ==
    UNION {Creates(queries[i][1], queries[i][2]) : i \in DOMAIN queries}

\* C21: execute_many is all-or-nothing in one transaction: a call that
\* sent statements either ran every query of its batch and committed them
\* together (with what the transaction already held), or stopped at the
\* query the driver rejected, committed nothing, rolled the connection
\* back and raised the DatabaseError; a call with an empty list sends no
\* statement and neither commits nor rolls back.
C21_BatchAllOrNothing ==
    [][/\ (op' = "execute_many" /\ wire' # wire) =>
             \E queries \in Batches \ {<<>>} :
                \/ /\ NewOnWire = SentOf(queries, Len(queries), 0)
                   /\ result' = "returned"
                   /\ committed' = committed \cup pending \cup BatchObjects(queries)
                   /\ pending' = {}
                   /\ tx_status' = "idle"
                \/ \E i \in DOMAIN queries :
                       /\ NewOnWire = SentOf(queries, i, i)
                       /\ result' = "raised"
                       /\ exc' = "DatabaseError"
                       /\ committed' = committed
                       /\ pending' = {}
                       /\ tx_status' = "idle"
       /\ (op' = "execute_many" /\ result' = "returned" /\ wire' = wire
             /\ connection' = connection)
            => UNCHANGED <<committed, pending, tx_status>>]_vars

\* a batch of two whose second query the driver rejected
C21_Witness ==
    /\ op = "execute_many"
    /\ result = "raised"
    /\ exc = "DatabaseError"
    /\ Len(wire) >= 2
    /\ wire[Len(wire) - 1] = Stmt(FunctionDDL, 1, TRUE)
    /\ wire[Len(wire)] = Stmt(TriggerDDL, 1, FALSE)
    /\ <<"trigger_function", 1>> \notin committed

\* C22: on an adapter that is not connected (before connect(), after
\* disconnect()) every call that would execute a statement (execute_query,
\* begin_transaction, commit_transaction and rollback_transaction on a
\* non-empty stack, execute_many with a non-empty list) fails with the
\* DatabaseError "Not connected to database" and sends nothing.
C22_NotConnectedFailsFast ==
    [][(/\ connection = "none"
        /\ connection' = "none"
        /\ \/ op' \in {"execute_query", "begin_transaction"}
           \/ /\ op' \in {"commit_transaction", "rollback_transaction"}
              /\ _transaction_stack # <<>>
           \/ op' = "execute_many" /\ result' = "raised")
       => (/\ result' = "raised"
           /\ exc' = "DatabaseError"
           /\ exc_stmt' = <<"not_connected", NoTable>>
           /\ wire' = wire)]_vars

\* C23: get_table_constraints is available on the adapter of every dialect
\* and is best-effort: the call returns (an empty result when the
\* constraint query fails) and never propagates an error.
C23_ConstraintsBestEffort ==
    op = "get_table_constraints" => (result = "returned" /\ exc = "none")

\* C30: a get_schemas(database) call on the PostgreSQL adapter that raises
\* leaves the adapter connected as before with config['database']
\* unchanged; a call that returns leaves it connected.
C30_FailedSwitchKeepsAdapter ==
    [][(/\ adapter = "PostgreSQLDatabase"
        /\ op' = "get_schemas"
        /\ (wire' # wire \/ config_database' # config_database))
       => IF result' = "raised"
          THEN connection' = connection /\ config_database' = config_database
          ELSE connection' = "open"]_vars

\* C29: transaction() restores the transaction stack on every exit path:
\* when the first apply_changes call, which entered transaction() with an
\* empty stack, has ended (the body completed or raised, COMMIT or
\* ROLLBACK failed), the stack is empty again.
C29_StackRestored ==
    (ApplyEnded /\ tx_opened /\ applies = 1) => _transaction_stack = <<>>

RECURSIVE Power(_, _)
Power(b, n) == IF n = 0 THEN 1 ELSE b * Power(b, n - 1)

RetryEnded == retry_run.fn = "wrapped" /\ retry_run.state \in {"returned", "raised"}

\* C27: for every max_attempts, a call through retry calls the wrapped
\* function at least once and at most max_attempts times, returns with the
\* first success, sleeps delay * backoff^(i-1) before attempt i+1, raises
\* the last attempt's exception after max_attempts failures, and raises at
\* once an exception that is not listed.
C27_RetryBounds ==
    /\ retry_run.fn = "wrapped" =>
          /\ retry_run.calls <= retry_run.max_attempts
          /\ \A i \in DOMAIN retry_run.waits :
                 retry_run.waits[i] = retry_run.delay * Power(retry_run.backoff, i - 1)
    /\ RetryEnded =>
          /\ retry_run.calls >= 1
          /\ Len(retry_run.waits) = retry_run.calls - 1
          /\ retry_run.state = "raised" =>
                 /\ retry_run.raised_by = retry_run.calls
                 /\ retry_run.exc \in {"listed", "unlisted"}
                 /\ retry_run.exc = "listed" => retry_run.calls = retry_run.max_attempts

\* C24: a failing connect is retried a bounded number of times
\* (max_retries) with a growing delay before it is reported: the driver
\* was asked more than once, at most max_retries + 1 times, with a sleep
\* between two attempts, each longer than the one before.
C24_ConnectRetried ==
    (retry_run.fn = "connect" /\ retry_run.state = "raised") =>
        /\ retry_run.calls > 1
        /\ retry_run.calls <= max_retries + 1
        /\ Len(retry_run.waits) = retry_run.calls - 1
        /\ \A i \in DOMAIN retry_run.waits :
               i > 1 => retry_run.waits[i] > retry_run.waits[i - 1]

\* C28: maxsize is the maximum cache size: for every maxsize >= 0 and any
\* sequence of calls, the cache never holds more than maxsize entries.
C28_CacheBounded == memo.made => Len(memo.cache) <= memo.maxsize

\* C25: the active database is set and used atomically: whenever a
\* thread's get_tables statement has run, it ran while the connection's
\* active database was the schema that thread asked for.
C25_ActiveDatabaseAtomic ==
    \A t \in ThreadIds :
        (threads.call[t] = "get_tables" /\ threads.ran_in[t] # "none")
        => threads.ran_in[t] = threads.schema[t]

\* thread t is between cursor creation and the end of fetch/commit of
\* execute_query, or between the first statement and the commit/rollback
\* of execute_many
InRegion(t) ==
    \/ threads.pc[t] \in {"execute", "fetch", "commit"}
    \/ threads.pc[t] = "rollback" /\ threads.call[t] = "execute_many"

\* thread t uses the connection in this step
UsesConnection(t) ==
    /\ threads.pc[t] \in {"set_database", "execute", "fetch", "commit", "rollback"}
    /\ (threads.pc[t] # threads'.pc[t] \/ threads.left[t] # threads'.left[t])

\* C26: the calls never interleave on the one connection: at most one
\* thread at a time is inside its region, and no thread uses the
\* connection while another thread is inside its region.
C26_NoInterleaving ==
    /\ [](\A t \in ThreadIds, u \in ThreadIds :
             (InRegion(t) /\ InRegion(u)) => t = u)
    /\ [][\A t \in ThreadIds, u \in ThreadIds :
             (UsesConnection(t) /\ InRegion(u)) => t = u]_vars

====
